---- MODULE Spec2Model ----
(***************************************************************************)
(* A model of gufe's content-addressable object core (src/gufe/base.py):   *)
(* GufeTokenizable entities, their dictionary forms, the tokenizer, the    *)
(* class registry with its remap table, and the weak instance registry.    *)
(*                                                                         *)
(* Python values are tagged records [t, v]:                                *)
(*   int, none, str, dict (insertion-ordered sequence of <<key, value>>),  *)
(*   list, obj (a reference to a heap instance).                           *)
(* Strings are real strings, so str() and the identifier are the text      *)
(* Python builds; md5 is modelled as injective on that text.               *)
(***************************************************************************)
EXTENDS Integers, Sequences, FiniteSets, TLC

VARIABLES
    heap,        \* instance id -> [cls, fields, key]: the live GufeTokenizable instances
    held,        \* ids the caller holds a strong reference to
    registry,    \* TOKENIZABLE_REGISTRY: identifier -> weakref (an id; 0 = referent dead)
    classes,     \* TOKENIZABLE_CLASS_REGISTRY: <<module, qualname>> -> class
    leafDefaults,\* the defaults mapping class Leaf declares (fixed per behaviour)
    saved,       \* the dictionary the caller keeps from the last encode
    savedOf,     \* [kind, id, fresh]: which encode of which live instance produced
                 \* saved, and its dependencies that had no identifier at that time
    returned,    \* <<id, d>>: from_dict(d) returned the live instance id
    last,        \* record of the last operation: its inputs, result and error
    steps        \* number of operations performed

vars == <<heap, held, registry, classes, leafDefaults, saved, savedOf, returned, last, steps>>

-----------------------------------------------------------------------------
(* Bounds *)
MaxObjs == 3
MaxDepth == 3
MaxSteps == 5

-----------------------------------------------------------------------------
(* Python values *)
VInt(n) == [t |-> "int", v |-> n]
VNone == [t |-> "none", v |-> 0]
VStr(s) == [t |-> "str", v |-> s]
VDict(p) == [t |-> "dict", v |-> p]
VList(s) == [t |-> "list", v |-> s]
VObj(i) == [t |-> "obj", v |-> i]

Keys(p) == {p[i][1] : i \in 1..Len(p)}
HasKey(p, k) == k \in Keys(p)
Get(p, k) == p[CHOOSE i \in 1..Len(p) : p[i][1] = k][2]
\* dict.get(k): None when absent
GetOrNone(p, k) == IF HasKey(p, k) THEN Get(p, k) ELSE VNone
\* dict.pop(k) on a present key: the remaining items keep their order
Pop(p, k) == SelectSeq(p, LAMBDA kv : kv[1] # k)
\* d[k] = v: an existing key keeps its position, a new key goes last
SetItem(p, k, v) ==
    IF HasKey(p, k)
    THEN [i \in 1..Len(p) |-> IF p[i][1] = k THEN <<k, v>> ELSE p[i]]
    ELSE Append(p, <<k, v>>)

RECURSIVE UpdateAll(_, _)
\* dict.update(q)
UpdateAll(p, q) ==
    IF q = <<>> THEN p
    ELSE UpdateAll(SetItem(p, Head(q)[1], Head(q)[2]), Tail(q))

RECURSIVE PyEq(_, _)
\* Python == on plain values: mappings compare as mappings (order ignored)
PyEq(a, b) ==
    IF a.t # b.t THEN FALSE
    ELSE CASE a.t = "dict" ->
                /\ Keys(a.v) = Keys(b.v)
                /\ \A k \in Keys(a.v) : PyEq(Get(a.v, k), Get(b.v, k))
           [] a.t = "list" ->
                /\ Len(a.v) = Len(b.v)
                /\ \A i \in 1..Len(a.v) : PyEq(a.v[i], b.v[i])
           [] OTHER -> a.v = b.v

RECURSIVE PyStr(_)
RECURSIVE JoinItems(_)
RECURSIVE JoinPairs(_)
\* str()/repr() of a plain value, as Python prints it
PyStr(v) ==
    CASE v.t = "int" -> ToString(v.v)
      [] v.t = "none" -> "None"
      [] v.t = "str" -> "'" \o v.v \o "'"
      [] v.t = "dict" -> "{" \o JoinPairs(v.v) \o "}"
      [] v.t = "list" -> "[" \o JoinItems(v.v) \o "]"
      [] OTHER -> "<object>"
JoinItems(s) ==
    IF s = <<>> THEN ""
    ELSE IF Len(s) = 1 THEN PyStr(s[1])
    ELSE PyStr(s[1]) \o ", " \o JoinItems(Tail(s))
JoinPairs(p) ==
    IF p = <<>> THEN ""
    ELSE LET one == "'" \o p[1][1] \o "': " \o PyStr(p[1][2])
         IN IF Len(p) = 1 THEN one ELSE one \o ", " \o JoinPairs(Tail(p))

RECURSIVE JoinTuples(_)
\* str of a list of (key, value) tuples
JoinTuples(p) ==
    IF p = <<>> THEN ""
    ELSE LET one == "('" \o p[1][1] \o "', " \o PyStr(p[1][2]) \o ")"
         IN IF Len(p) = 1 THEN one ELSE one \o ", " \o JoinTuples(Tail(p))

\* The field names of the model in the order Python's string comparison gives
\* the text "('<name>', ..." of their items
KeyOrder == <<":gufe-key:", "__module__", "__qualname__", "a", "b", "deps", "opts", "x", "y", "z">>

\* sorted(d.items(), key=str): keys are unique, so the order is that of the keys
SortedItems(p) ==
    LET present == SelectSeq(KeyOrder, LAMBDA k : HasKey(p, k))
    IN [i \in 1..Len(present) |-> <<present[i], Get(p, present[i])>>]

RECURSIVE Refs(_)
RECURSIVE RefsSeq(_)
\* the instances a value refers to
Refs(v) ==
    CASE v.t = "obj" -> {v.v}
      [] v.t = "dict" -> RefsSeq([i \in 1..Len(v.v) |-> v.v[i][2]])
      [] v.t = "list" -> RefsSeq(v.v)
      [] OTHER -> {}
RefsSeq(s) == IF s = <<>> THEN {} ELSE Refs(Head(s)) \cup RefsSeq(Tail(s))

RECURSIVE RefKeys(_)
RECURSIVE RefKeysSeq(_)
\* the identifiers the reference records of a value name
RefKeys(v) ==
    CASE v.t = "dict" ->
            IF HasKey(v.v, ":gufe-key:") THEN {Get(v.v, ":gufe-key:").v}
            ELSE RefKeysSeq([i \in 1..Len(v.v) |-> v.v[i][2]])
      [] v.t = "list" -> RefKeysSeq(v.v)
      [] OTHER -> {}
RefKeysSeq(s) == IF s = <<>> THEN {} ELSE RefKeys(Head(s)) \cup RefKeysSeq(Tail(s))

-----------------------------------------------------------------------------
(* Classes: the concrete GufeTokenizable subclasses of the model *)

\* Leaf(x=0, y), Node(deps, opts=None); Leaf0 is the legacy class that module
\* gufe.old still defines after Leaf was moved to gufe.m
ClassNames == {"Leaf", "Node", "Leaf0"}
ClsModule(c) == IF c = "Leaf0" THEN "gufe.old" ELSE "gufe.m"
ClsQualname(c) == c
ClsFields(c) == IF c = "Node" THEN <<"deps", "opts">> ELSE <<"x", "y">>
Location(c) == <<ClsModule(c), ClsQualname(c)>>

\* cls.defaults: parameter name -> default of the constructor
Defaults(c) ==
    IF c = "Node" THEN << <<"opts", VNone>> >>
    ELSE IF c = "Leaf" THEN leafDefaults
    ELSE << <<"x", VInt(0)>> >>

\* REMAPPED_CLASSES: a rename Leaf0 -> Leaf, and an older rename Leaf00 -> Leaf0
REMAPPED_CLASSES ==
    (<<"gufe.old", "Leaf0">> :> <<"gufe.m", "Leaf">>)
    @@ (<<"gufe.older", "Leaf00">> :> <<"gufe.old", "Leaf0">>)

\* register_tokenizable_class, run by the metaclass when a class is defined
register_tokenizable_class(creg, c) ==
    [k \in DOMAIN creg \cup {Location(c)} |-> IF k = Location(c) THEN c ELSE creg[k]]

RECURSIVE RegisterAll(_, _)
RegisterAll(creg, cs) ==
    IF cs = {} THEN creg
    ELSE LET c == CHOOSE x \in cs : TRUE
         IN RegisterAll(register_tokenizable_class(creg, c), cs \ {c})

\* importlib.import_module(modname): executing the module defines its classes
ImportModule(creg, modname) ==
    RegisterAll(creg, {c \in ClassNames : ClsModule(c) = modname})

\* import_qualname: one lookup in the remap table, then import and getattr
import_qualname(modname, qualname, creg) ==
    LET target == IF <<modname, qualname>> \in DOMAIN REMAPPED_CLASSES
                  THEN REMAPPED_CLASSES[<<modname, qualname>>]
                  ELSE <<modname, qualname>>
        found == {c \in ClassNames : Location(c) = target}
    IN IF found = {}
       THEN [cls |-> "", classes |-> creg, err |-> "ImportError"]
       ELSE [cls |-> CHOOSE c \in found : TRUE,
             classes |-> ImportModule(creg, target[1]),
             err |-> ""]

\* get_class: the class registry first, import (and cache) on a miss
get_class(module, qualname, creg) ==
    LET key == <<module, qualname>>
    IN IF key \in DOMAIN creg
       THEN [cls |-> creg[key], classes |-> creg, err |-> ""]
       ELSE LET r == import_qualname(module, qualname, creg)
            IN IF r.err # "" THEN r
               ELSE [cls |-> r.cls,
                     classes |-> [k \in DOMAIN r.classes \cup {key} |->
                                     IF k = key THEN r.cls ELSE r.classes[k]],
                     err |-> ""]

-----------------------------------------------------------------------------
(* Instances *)
NoKey == ""

NewId(h) == CHOOSE i \in 1..(Cardinality(DOMAIN h) + 1) :
                i \notin DOMAIN h /\ \A j \in 1..(i - 1) : j \in DOMAIN h

\* the constructor: a fresh instance without _key
Alloc(h, c, fields) ==
    LET i == NewId(h)
    IN [id |-> i,
        heap |-> [j \in DOMAIN h \cup {i} |->
                    IF j = i THEN [cls |-> c, fields |-> fields, key |-> NoKey] ELSE h[j]]]

\* self._to_dict() of a concrete class: a fresh dict of its own fields
_to_dict(h, i) == h[i].fields

\* cls._from_dict(dct) of a concrete class, cls(**dct): unknown names and
\* missing required parameters are a TypeError, absent defaults are filled in
cls_from_dict(c, dct, h) ==
    LET d == Defaults(c)
        params == {ClsFields(c)[i] : i \in 1..Len(ClsFields(c))} \cup Keys(d)
        required == {f \in params : ~HasKey(d, f)}
    IN IF ~(Keys(dct) \subseteq params) \/ ~(required \subseteq Keys(dct))
       THEN [id |-> 0, heap |-> h, err |-> "TypeError"]
       ELSE LET fields == [i \in 1..Len(ClsFields(c)) |->
                             LET f == ClsFields(c)[i]
                             IN <<f, IF HasKey(dct, f) THEN Get(dct, f) ELSE Get(d, f)>>]
                a == Alloc(h, c, fields)
            IN [id |-> a.id, heap |-> a.heap, err |-> ""]

module_qualname(c) ==
    << <<"__qualname__", VStr(ClsQualname(c))>>, <<"__module__", VStr(ClsModule(c))>> >>

is_gufe_obj(v) == v.t = "obj"
is_gufe_dict(v) == v.t = "dict" /\ HasKey(v.v, "__qualname__") /\ HasKey(v.v, "__module__")
is_gufe_key_dict(v) == v.t = "dict" /\ HasKey(v.v, ":gufe-key:")

\* to_dict without the update: the class tags are forgotten
to_dict_untagged(h, i) == VDict(_to_dict(h, i))

\* module-level to_dict(obj): obj._to_dict() updated with the class tags
to_dict(h, i) == VDict(UpdateAll(_to_dict(h, i), module_qualname(h[i].cls)))

\* GufeKey.to_dict
KeyToDict(k) == VDict(<< <<":gufe-key:", VStr(k)>> >>)

-----------------------------------------------------------------------------
(* The codec.  st = [heap, registry, classes] is threaded through every call; *)
(* a result is [val, st, err], err = "" when nothing was raised.  A value     *)
(* that Python binds to a local variable is passed on as a parameter.         *)

Res(val, st, err) == [val |-> val, st |-> st, err |-> err]

\* weakref.ref(obj)(): None once the referent is dead
Deref(ref) == IF ref = 0 THEN VNone ELSE VObj(ref)

\* the loop of to_dict(include_defaults=False) over self.defaults.items()
RECURSIVE StripDefaults(_, _)
StripDefaults(p, d) ==
    IF d = <<>> THEN [val |-> VDict(p), err |-> ""]
    ELSE IF PyEq(GetOrNone(p, Head(d)[1]), Head(d)[2])
         THEN IF HasKey(p, Head(d)[1])
              THEN StripDefaults(Pop(p, Head(d)[1]), Tail(d))
              ELSE [val |-> VNone, err |-> "KeyError"]
         ELSE StripDefaults(p, Tail(d))

IsMine(mode, obj) ==
    CASE mode = "dict_decode" -> is_gufe_dict(obj)
      [] mode = "key_decode" -> is_gufe_key_dict(obj)
      [] OTHER -> is_gufe_obj(obj)

Raised(st, err, dct) == [val |-> VNone, st |-> st, err |-> err, dct |-> dct]

\* cls._from_dict(dct) for the class get_class found
Construct(g, rest, st, c) ==
    [val |-> IF c.err = "" THEN VObj(c.id) ELSE VNone,
     st |-> [st EXCEPT !.classes = g.classes, !.heap = c.heap],
     err |-> c.err, dct |-> VDict(rest)]

Resolve(g, rest, st) ==
    IF g.err # "" THEN Raised([st EXCEPT !.classes = g.classes], g.err, VDict(rest))
    ELSE Construct(g, rest, st, cls_from_dict(g.cls, rest, st.heap))

\* _from_dict(dct): pops the tags, resolves the class, builds the instance;
\* the result's dct is what is left of the argument
_from_dict(dct, st) ==
    IF dct.t # "dict" THEN Raised(st, "AttributeError", dct)
    ELSE IF ~HasKey(dct.v, "__module__") THEN Raised(st, "KeyError", dct)
    ELSE IF ~HasKey(dct.v, "__qualname__")
         THEN Raised(st, "KeyError", VDict(Pop(dct.v, "__module__")))
    ELSE IF Get(dct.v, "__qualname__").t = "none" \/ Get(dct.v, "__module__").t = "none"
         THEN Raised(st, "KeyError", VDict(Pop(Pop(dct.v, "__module__"), "__qualname__")))
    ELSE Resolve(get_class(Get(dct.v, "__module__").v, Get(dct.v, "__qualname__").v,
                           st.classes),
                 Pop(Pop(dct.v, "__module__"), "__qualname__"), st)

RECURSIVE modify_dependencies(_, _, _, _)
RECURSIVE WalkPairs(_, _, _)
RECURSIVE WalkItems(_, _, _)

\* dict_encode_dependencies without its walk: the shallow dictionary
dict_encode_unwalked(st, i) == Res(to_dict(st.heap, i), st, "")

\* dict_encode_dependencies(obj)
dict_encode_dependencies(st, i) ==
    modify_dependencies(to_dict(st.heap, i), "dict_encode", TRUE, st)

\* GufeTokenizable.to_dict(include_defaults): [val, err]
ToDict(st, i, include_defaults) ==
    IF include_defaults
    THEN [val |-> dict_encode_dependencies(st, i).val, err |-> ""]
    ELSE StripDefaults(dict_encode_dependencies(st, i).val.v, Defaults(st.heap[i].cls))

\* str of the normalized items, hashed (md5 is taken to be injective)
Digest(d) ==
    IF d.err # "" THEN d
    ELSE [val |-> "[" \o JoinTuples(SortedItems(d.val.v)) \o "]", err |-> ""]

\* tokenize over the dictionary form with its defaults left in
tokenize_with_defaults(st, i) == Digest(ToDict(st, i, TRUE))

\* tokenize(obj): md5 of str(sorted(to_dict(include_defaults=False).items(), key=str))
tokenize(st, i) == Digest(ToDict(st, i, FALSE))

\* TOKENIZABLE_REGISTRY[self._key] = weakref.ref(self): plain assignment
SetAlways(st, i, copy, k) ==
    Res(k,
        [st EXCEPT !.heap = IF copy THEN st.heap ELSE [st.heap EXCEPT ![i].key = k],
                   !.registry = [x \in DOMAIN st.registry \cup {k} |->
                                   IF x = k THEN (IF copy THEN 0 ELSE i)
                                   ELSE st.registry[x]]],
        "")

\* TOKENIZABLE_REGISTRY.setdefault(self._key, weakref.ref(self))
SetDefault(st, i, copy, k) ==
    Res(k,
        [st EXCEPT !.heap = IF copy THEN st.heap ELSE [st.heap EXCEPT ![i].key = k],
                   !.registry = IF k \in DOMAIN st.registry THEN st.registry
                                ELSE st.registry @@ (k :> IF copy THEN 0 ELSE i)],
        "")

Memoize(st, i, copy, t) ==
    IF t.err # "" THEN Res("", st, t.err)
    ELSE SetDefault(st, i, copy, ClsQualname(st.heap[i].cls) \o "-" \o t.val)

\* the key property.  copy: self is a deep copy made by modify_dependencies,
\* which is dropped when the modifier returns, so its weak reference is dead
Key(st, i, copy) ==
    IF st.heap[i].key = NoKey THEN Memoize(st, i, copy, tokenize(st, i))
    ELSE SetDefault(st, i, copy, st.heap[i].key)

\* thing = TOKENIZABLE_REGISTRY[obj.key](); obj when thing is None
Lookup(r1, r2) ==
    IF r2.err # "" THEN Raised(r2.st, r2.err, r1.dct)
    ELSE [val |-> IF r2.st.registry[r2.val] = 0 THEN r1.val
                  ELSE Deref(r2.st.registry[r2.val]),
          st |-> r2.st, err |-> "", dct |-> r1.dct]

Registered(r1) ==
    IF r1.err # "" THEN r1 ELSE Lookup(r1, Key(r1.st, r1.val.v, FALSE))

\* from_dict(dct): [val, st, err, dct]
from_dict(dct, st) == Registered(_from_dict(dct, st))

AsRes(r) == Res(r.val, r.st, r.err)

\* the walk without its deep copy: the modifier is handed the caller's object
HandsOriginal == FALSE

\* obj = copy.deepcopy(obj) at the head of modify_dependencies: what the
\* modifier is handed, it may change without the caller's object changing
HandsCopy == TRUE
AsKeyDict(r) == IF r.err # "" THEN Res(VNone, r.st, r.err) ELSE Res(KeyToDict(r.val), r.st, "")

\* the modifier each caller of modify_dependencies passes
Modifier(mode, obj, st) ==
    CASE mode = "dict_encode" -> Res(to_dict(st.heap, obj.v), st, "")
      [] mode = "key_encode" -> AsKeyDict(Key(st, obj.v, HandsCopy))
      [] mode = "dict_decode" -> AsRes(from_dict(obj, st))
      [] mode = "key_decode" ->
            IF Get(obj.v, ":gufe-key:").v \notin DOMAIN st.registry
            THEN Res(VNone, st, "KeyError")
            ELSE Res(Deref(st.registry[Get(obj.v, ":gufe-key:").v]), st, "")

AsDict(w) == Res(VDict(w.val), w.st, w.err)
AsList(w) == Res(VList(w.val), w.st, w.err)

\* the comprehensions over a dict's values and a list's items
Descend(m, mode) ==
    IF m.err # "" THEN m
    ELSE IF m.val.t = "dict" THEN AsDict(WalkPairs(m.val.v, mode, m.st))
    ELSE IF m.val.t = "list" THEN AsList(WalkItems(m.val.v, mode, m.st))
    ELSE m

\* modify_dependencies(obj, modifier, is_mine, top); mode names the pair
\* (modifier, is_mine) the four callers pass
modify_dependencies(obj, mode, top, st) ==
    Descend(IF IsMine(mode, obj) /\ ~top THEN Modifier(mode, obj, st)
            ELSE Res(obj, st, ""),
            mode)

Cons(x, t) == Res(<<x>> \o t.val, t.st, t.err)

PairsAfter(p, mode, h) ==
    IF h.err # "" THEN Res(<<>>, h.st, h.err)
    ELSE Cons(<<p[1][1], h.val>>, WalkPairs(Tail(p), mode, h.st))

WalkPairs(p, mode, st) ==
    IF p = <<>> THEN Res(<<>>, st, "")
    ELSE PairsAfter(p, mode, modify_dependencies(p[1][2], mode, FALSE, st))

ItemsAfter(s, mode, h) ==
    IF h.err # "" THEN Res(<<>>, h.st, h.err)
    ELSE Cons(h.val, WalkItems(Tail(s), mode, h.st))

WalkItems(s, mode, st) ==
    IF s = <<>> THEN Res(<<>>, st, "")
    ELSE ItemsAfter(s, mode, modify_dependencies(s[1], mode, FALSE, st))

\* key_encode_dependencies with the top flag backward: the root is keyed too
key_encode_root_too(st, i) ==
    modify_dependencies(VObj(i), "key_encode", FALSE, st)

\* key_encode_dependencies(obj)
key_encode_dependencies(st, i) ==
    modify_dependencies(to_dict(st.heap, i), "key_encode", TRUE, st)

DecodeRoot(w) == IF w.err # "" THEN w ELSE AsRes(from_dict(w.val, w.st))

\* dict_decode_dependencies(dct)
dict_decode_dependencies(dct, st) ==
    DecodeRoot(modify_dependencies(dct, "dict_decode", TRUE, st))

\* key_decode_dependencies(dct)
key_decode_dependencies(dct, st) ==
    DecodeRoot(modify_dependencies(dct, "key_decode", TRUE, st))

RECURSIVE PoppedNested(_, _)
\* a dictionary after from_dict was handed each of its nested records itself:
\* _from_dict pops both tags of the record it is given
PoppedNested(d, top) ==
    CASE d.t = "dict" ->
            IF is_gufe_dict(d) /\ ~top
            THEN VDict(Pop(Pop(d.v, "__module__"), "__qualname__"))
            ELSE VDict([i \in 1..Len(d.v) |-> <<d.v[i][1], PoppedNested(d.v[i][2], FALSE)>>])
      [] d.t = "list" -> VList([i \in 1..Len(d.v) |-> PoppedNested(d.v[i], FALSE)])
      [] OTHER -> d

\* the caller's dictionary after GufeTokenizable.from_dict(dct) or
\* from_keyed_dict(dct): only modify_dependencies is handed dct itself, and
\* from_dict gets the new dictionary the walk returns
CallerDict(dct, mode) ==
    IF HandsCopy \/ mode # "dict_decode" THEN dct ELSE PoppedNested(dct, TRUE)

\* GufeTokenizable.to_shallow_dict(self)
to_shallow_dict(st, i) == to_dict(st.heap, i)

\* GufeTokenizable.from_shallow_dict(dct): [val, st, err, dct], dct being the
\* caller's dictionary afterwards, which from_dict was handed itself
from_shallow_dict(dct, st) == from_dict(dct, st)

\* GufeTokenizable.__eq__(self, other): [val, err]
Eq(st, a, b) ==
    IF ~(b.t = "obj" /\ st.heap[b.v].cls = st.heap[a].cls)
    THEN [val |-> FALSE, err |-> "TypeError"]
    ELSE [val |-> PyEq(ToDict(st, a, TRUE).val, ToDict(st, b.v, TRUE).val), err |-> ""]

-----------------------------------------------------------------------------
(* Lifetime: an instance lives while the caller holds it or a live instance *)
(* refers to it; a weak reference to a dead instance stays dead for good.   *)

RECURSIVE Reach(_, _)
Reach(S, h) ==
    LET n == S \cup UNION {Refs(VDict(h[i].fields)) : i \in S}
    IN IF n = S THEN S ELSE Reach(n, h)

Collect(st, roots) ==
    LET live == Reach(roots \cap DOMAIN st.heap, st.heap)
    IN [heap |-> [i \in live |-> st.heap[i]],
        registry |-> [k \in DOMAIN st.registry |->
                        IF st.registry[k] \in live THEN st.registry[k] ELSE 0],
        classes |-> st.classes]

RECURSIVE VDepth(_, _)
RECURSIVE VDepthSeq(_, _)
\* how deeply entities (or tagged dictionaries) nest in a value
VDepth(v, h) ==
    CASE v.t = "obj" -> 1 + VDepth(VDict(h[v.v].fields), h)
      [] v.t = "dict" -> (IF is_gufe_dict(v) THEN 1 ELSE 0)
                         + VDepthSeq([i \in 1..Len(v.v) |-> v.v[i][2]], h)
      [] v.t = "list" -> VDepthSeq(v.v, h)
      [] OTHER -> 0
VDepthSeq(s, h) ==
    IF s = <<>> THEN 0
    ELSE LET a == VDepth(Head(s), h)
             b == VDepthSeq(Tail(s), h)
         IN IF a > b THEN a ELSE b

Cur == [heap |-> heap, registry |-> registry, classes |-> classes]

\* the state after an operation that leaves st, the caller then holding roots
Commit(st, roots) ==
    LET c == Collect(st, roots)
    IN /\ heap' = c.heap
       /\ held' = roots \cap DOMAIN c.heap
       /\ registry' = c.registry
       /\ classes' = c.classes

\* what the caller's records still refer to once only the instances of h live
StillSaved(h) ==
    [kind |-> savedOf.kind,
     id |-> IF savedOf.id \in DOMAIN h THEN savedOf.id ELSE 0,
     fresh |-> savedOf.fresh \cap DOMAIN h]
StillReturned(h) == {p \in returned : p[1] \in DOMAIN h}

Op(op, arg, out, err) ==
    [op |-> op, arg |-> arg, out |-> out, err |-> err, aux |-> {}, after |-> VNone]

VBool(b) == [t |-> "bool", v |-> b]

-----------------------------------------------------------------------------
(* Dictionaries that come from storage rather than from an encode *)

OptsAB == VDict(<< <<"a", VInt(1)>>, <<"b", VInt(2)>> >>)
OptsBA == VDict(<< <<"b", VInt(2)>>, <<"a", VInt(1)>> >>)

LeafFields(x) == << <<"x", VInt(x)>>, <<"y", VInt(5)>> >>

\* a Leaf written before the rename, tagged with the old location
StoredOld ==
    VDict(LeafFields(1) \o << <<"__qualname__", VStr("Leaf0")>>,
                              <<"__module__", VStr("gufe.old")>> >>)
\* ... and one written before the older rename
StoredOlder ==
    VDict(LeafFields(1) \o << <<"__qualname__", VStr("Leaf00")>>,
                              <<"__module__", VStr("gufe.older")>> >>)
\* a record whose __module__ tag is missing
StoredNoModule ==
    VDict(LeafFields(1) \o << <<"__qualname__", VStr("Leaf")>> >>)
\* the full form of Leaf(x=1, y=5), as another process stored it
StoredLeaf == VDict(LeafFields(1) \o module_qualname("Leaf"))

\* the identifier of Leaf(x=1, y=5), as another process stored it
StoredLeafKey ==
    "Leaf-[" \o JoinTuples(SortedItems(LeafFields(1) \o module_qualname("Leaf"))) \o "]"
\* the keyed form of Node(deps=[Leaf(x=1, y=5)], opts=None)
StoredKeyed ==
    VDict(<< <<"deps", VList(<<KeyToDict(StoredLeafKey)>>)>>, <<"opts", VNone>> >>
          \o module_qualname("Node"))

\* a record whose __qualname__ tag is missing
StoredNoQualname ==
    VDict(LeafFields(1) \o << <<"__module__", VStr("gufe.m")>> >>)
\* a Node whose dependency's record has lost its __module__ tag
StoredNestedNoModule ==
    VDict(<< <<"deps", VList(<<StoredNoModule>>)>>, <<"opts", VNone>> >>
          \o module_qualname("Node"))

-----------------------------------------------------------------------------
(* Operations *)

\* Leaf(x=x, y=5)
ConstructLeaf(x) ==
    /\ steps < MaxSteps
    /\ Cardinality(DOMAIN heap) < MaxObjs
    /\ LET a == Alloc(heap, "Leaf", LeafFields(x))
       IN /\ Commit([Cur EXCEPT !.heap = a.heap], held \cup {a.id})
          /\ last' = Op("construct", VNone, VObj(a.id), "")
    /\ steps' = steps + 1
    /\ UNCHANGED <<leafDefaults, saved, savedOf, returned>>

\* Node(deps=deps, opts=opts)
ConstructNode(deps, opts) ==
    /\ steps < MaxSteps
    /\ Cardinality(DOMAIN heap) < MaxObjs
    /\ LET a == Alloc(heap, "Node", << <<"deps", VList(deps)>>, <<"opts", opts>> >>)
       IN /\ VDepth(VObj(a.id), a.heap) <= MaxDepth
          /\ Commit([Cur EXCEPT !.heap = a.heap], held \cup {a.id})
          /\ last' = Op("construct", VNone, VObj(a.id), "")
    /\ steps' = steps + 1
    /\ UNCHANGED <<leafDefaults, saved, savedOf, returned>>

\* i.key; aux: the identifier the instance had memoized before
AccessKey(i) ==
    /\ steps < MaxSteps
    /\ LET r == Key(Cur, i, FALSE)
       IN /\ Commit(r.st, held)
          /\ last' = [Op("key", VObj(i), VStr(r.val), r.err) EXCEPT
                          !.aux = {heap[i].key} \ {NoKey}]
    /\ steps' = steps + 1
    /\ UNCHANGED <<leafDefaults, saved, savedOf, returned>>

\* saved = i.to_dict(include_defaults)
ToDictOp(i, include_defaults) ==
    /\ steps < MaxSteps
    /\ LET r == ToDict(Cur, i, include_defaults)
       IN /\ last' = Op(IF include_defaults THEN "to_dict" ELSE "to_dict_nodefaults",
                        VObj(i), r.val, r.err)
          /\ saved' = IF r.err = "" THEN r.val ELSE saved
          /\ savedOf' = IF r.err # "" THEN savedOf
                        ELSE [kind |-> IF include_defaults THEN "full" ELSE "stripped",
                              id |-> i, fresh |-> {}]
    /\ steps' = steps + 1
    /\ UNCHANGED <<heap, held, registry, classes, leafDefaults, returned>>

\* saved = i.to_keyed_dict()
ToKeyedDict(i) ==
    /\ steps < MaxSteps
    /\ LET r == key_encode_dependencies(Cur, i)
       IN /\ Commit(r.st, held)
          /\ last' = Op("to_keyed_dict", VObj(i), r.val, r.err)
          /\ saved' = IF r.err = "" THEN r.val ELSE saved
          /\ savedOf' = IF r.err # "" THEN savedOf
                        ELSE [kind |-> "keyed", id |-> i,
                              fresh |-> {j \in Refs(VDict(heap[i].fields)) :
                                            heap[j].key = NoKey}]
    /\ steps' = steps + 1
    /\ UNCHANGED <<leafDefaults, returned>>

\* GufeTokenizable.from_dict(d); the caller keeps the result
FromDict(d) ==
    /\ steps < MaxSteps
    /\ LET r == dict_decode_dependencies(d, Cur)
           roots == IF r.err = "" THEN held \cup {r.val.v} ELSE held
       IN /\ Commit(r.st, roots)
          /\ last' = [Op("from_dict", d, r.val, r.err) EXCEPT
                          !.aux = {p[1] : p \in {q \in returned : q[2] = d}},
                          !.after = CallerDict(d, "dict_decode")]
          /\ savedOf' = StillSaved(Collect(r.st, roots).heap)
          /\ returned' = StillReturned(Collect(r.st, roots).heap)
                            \cup (IF r.err = "" THEN {<<r.val.v, d>>} ELSE {})
    /\ steps' = steps + 1
    /\ UNCHANGED <<leafDefaults, saved>>

\* GufeTokenizable.from_keyed_dict(d); the caller keeps the result
FromKeyedDict(d) ==
    /\ steps < MaxSteps
    /\ LET r == key_decode_dependencies(d, Cur)
           roots == IF r.err = "" THEN held \cup {r.val.v} ELSE held
       IN /\ Commit(r.st, roots)
          /\ last' = [Op("from_keyed_dict", d, r.val, r.err) EXCEPT
                          !.aux = {k \in RefKeys(d) : IF k \in DOMAIN registry
                                                       THEN registry[k] = 0 ELSE TRUE},
                          !.after = CallerDict(d, "key_decode")]
          /\ savedOf' = StillSaved(Collect(r.st, roots).heap)
          /\ returned' = StillReturned(Collect(r.st, roots).heap)
    /\ steps' = steps + 1
    /\ UNCHANGED <<leafDefaults, saved>>

\* saved = i.to_shallow_dict()
ToShallowDict(i) ==
    /\ steps < MaxSteps
    /\ saved' = to_shallow_dict(Cur, i)
    /\ savedOf' = [kind |-> "shallow", id |-> i, fresh |-> {}]
    /\ last' = Op("to_shallow_dict", VObj(i), to_shallow_dict(Cur, i), "")
    /\ steps' = steps + 1
    /\ UNCHANGED <<heap, held, registry, classes, leafDefaults, returned>>

FromShallowDictDone(r, roots) ==
    /\ Commit(r.st, roots)
    /\ saved' = r.dct
    /\ last' = [Op("from_shallow_dict", saved, r.val, r.err) EXCEPT !.after = r.dct]
    /\ savedOf' = StillSaved(Collect(r.st, roots).heap)
    /\ returned' = StillReturned(Collect(r.st, roots).heap)

\* GufeTokenizable.from_shallow_dict(saved); the caller keeps the result
FromShallowDict ==
    /\ steps < MaxSteps
    /\ savedOf.kind = "shallow"
    /\ LET r == from_shallow_dict(saved, Cur)
       IN FromShallowDictDone(r, IF r.err = "" THEN held \cup {r.val.v} ELSE held)
    /\ steps' = steps + 1
    /\ UNCHANGED leafDefaults

\* a == other
Compare(a, other) ==
    /\ steps < MaxSteps
    /\ LET r == Eq(Cur, a, other)
       IN last' = Op("eq", <<VObj(a), other>>, VBool(r.val), r.err)
    /\ steps' = steps + 1
    /\ UNCHANGED <<heap, held, registry, classes, leafDefaults, saved, savedOf, returned>>

\* the caller drops its reference to i
Drop(i) ==
    /\ steps < MaxSteps
    /\ Commit(Cur, held \ {i})
    /\ savedOf' = StillSaved(Collect(Cur, held \ {i}).heap)
    /\ returned' = StillReturned(Collect(Cur, held \ {i}).heap)
    /\ last' = Op("drop", VObj(i), VNone, "")
    /\ steps' = steps + 1
    /\ UNCHANGED <<leafDefaults, saved>>

\* the caller drops its reference to i, an instance that the saved
\* dictionary does not keep alive
DropUnsaved(i) ==
    /\ Refs(saved) \subseteq Reach(held \ {i}, heap)
    /\ Drop(i)

-----------------------------------------------------------------------------
(* ChemicalState (src/gufe/chemicalstate.py).  A label is the sequence of its *)
(* characters; a float is its text; a Component is an opaque value.           *)

VComponent(n) == [t |-> "component", v |-> n]
NdArray(s) == [t |-> "ndarray", v |-> s]
VFloat(x) == [t |-> "float", v |-> x]

\* Component.to_dict() and Component.from_dict(): gufe/component.py
Component_to_dict(c) == VDict(<< <<"name", VInt(c.v)>> >>)
Component_from_dict(v) ==
    IF v.t = "dict" /\ HasKey(v.v, "name")
    THEN [val |-> VComponent(Get(v.v, "name").v), err |-> ""]
    ELSE [val |-> VNone, err |-> "TypeError"]

\* np.array([np.nan] * 9)
NanBox == NdArray([i \in 1..9 |-> "nan"])
\* ndarray.tolist() and np.array(list)
tolist(a) == VList([i \in 1..Len(a.v) |-> VFloat(a.v[i])])
np_array(l) == NdArray([i \in 1..Len(l.v) |-> l.v[i].v])
\* np.array_equal(a, b, equal_nan=True)
array_equal(a, b) == a.v = b.v

\* ChemicalState.__init__
ChemicalState_init(h, components, box_vectors, identifier) ==
    Alloc(h, "ChemicalState",
          << <<"_components", components>>,
             <<"_box_vectors", IF box_vectors = VNone THEN NanBox ELSE box_vectors>>,
             <<"_identifier", identifier>> >>)

\* ChemicalState.to_dict
ChemicalState_to_dict(h, i) ==
    VDict(<< <<"components",
               VDict([k \in 1..Len(Get(h[i].fields, "_components").v) |->
                        <<Get(h[i].fields, "_components").v[k][1],
                          Component_to_dict(Get(h[i].fields, "_components").v[k][2])>>])>>,
             <<"box_vectors", tolist(Get(h[i].fields, "_box_vectors"))>>,
             <<"identifier", Get(h[i].fields, "_identifier")>> >>)

\* one turn of `for key, value in d["components"]`: iterating a dict gives
\* its keys, and a key unpacks into two names only if it has two characters
Unpacked(label) ==
    IF Len(label) # 2 THEN [key |-> "", val |-> VNone, err |-> "ValueError"]
    ELSE [key |-> <<label[1]>>, val |-> Component_from_dict(VStr(label[2])).val,
          err |-> Component_from_dict(VStr(label[2])).err]

RECURSIVE Comprehend(_, _)
\* {key: Component.from_dict(value) for key, value in d["components"]},
\* acc being the dictionary built so far
Comprehend(p, acc) ==
    IF p = <<>> THEN [val |-> acc, err |-> ""]
    ELSE IF Unpacked(p[1][1]).err # ""
         THEN [val |-> <<>>, err |-> Unpacked(p[1][1]).err]
    ELSE Comprehend(Tail(p), SetItem(acc, Unpacked(p[1][1]).key, Unpacked(p[1][1]).val))

Constructed(a) == [id |-> a.id, heap |-> a.heap, err |-> ""]

\* cls(components=..., box_vectors=np.array(...), identifier=...)
Built(h, c, d) ==
    IF c.err # "" THEN [id |-> 0, heap |-> h, err |-> c.err]
    ELSE Constructed(ChemicalState_init(h, VDict(c.val), np_array(Get(d.v, "box_vectors")),
                                        Get(d.v, "identifier")))

\* ChemicalState.from_dict(d): [id, heap, err]
ChemicalState_from_dict(h, d) ==
    Built(h, Comprehend(Get(d.v, "components").v, <<>>), d)

\* ChemicalState.__eq__(self, other), other a ChemicalState
ChemicalState_eq(a, b) ==
    /\ Get(a.fields, "_identifier") = Get(b.fields, "_identifier")
    /\ array_equal(Get(a.fields, "_box_vectors"), Get(b.fields, "_box_vectors"))
    /\ Keys(Get(a.fields, "_components").v) = Keys(Get(b.fields, "_components").v)
    /\ \A k \in Keys(Get(a.fields, "_components").v) :
          Get(Get(a.fields, "_components").v, k) = Get(Get(b.fields, "_components").v, k)

\* ChemicalState(components, box_vectors, identifier)
ConstructState(components, box_vectors, identifier) ==
    /\ steps < MaxSteps
    /\ Cardinality(DOMAIN heap) < MaxObjs
    /\ LET a == ChemicalState_init(heap, components, box_vectors, identifier)
       IN /\ Commit([Cur EXCEPT !.heap = a.heap], held \cup {a.id})
          /\ last' = Op("construct", VNone, VObj(a.id), "")
    /\ steps' = steps + 1
    /\ UNCHANGED <<leafDefaults, saved, savedOf, returned>>

\* saved = i.to_dict(), i a ChemicalState
StateToDict(i) ==
    /\ steps < MaxSteps
    /\ saved' = ChemicalState_to_dict(heap, i)
    /\ savedOf' = [kind |-> "state", id |-> i, fresh |-> {}]
    /\ last' = Op("state_to_dict", VObj(i), ChemicalState_to_dict(heap, i), "")
    /\ steps' = steps + 1
    /\ UNCHANGED <<heap, held, registry, classes, leafDefaults, returned>>

StateFromDictDone(r, roots) ==
    /\ Commit([Cur EXCEPT !.heap = r.heap], roots)
    /\ last' = Op("state_from_dict", saved, IF r.err = "" THEN VObj(r.id) ELSE VNone, r.err)
    /\ savedOf' = StillSaved(Collect([Cur EXCEPT !.heap = r.heap], roots).heap)

\* ChemicalState.from_dict(saved); the caller keeps the result
StateFromDict ==
    /\ steps < MaxSteps
    /\ savedOf.kind = "state"
    /\ LET r == ChemicalState_from_dict(heap, saved)
       IN StateFromDictDone(r, IF r.err = "" THEN held \cup {r.id} ELSE held)
    /\ steps' = steps + 1
    /\ UNCHANGED <<leafDefaults, saved, returned>>

\* import gufe.old: the module still defines (and so registers) Leaf0
ImportLegacy ==
    /\ steps < MaxSteps
    /\ IF Location("Leaf0") \in DOMAIN classes
       THEN classes[Location("Leaf0")] # "Leaf0" ELSE TRUE
    /\ classes' = ImportModule(classes, "gufe.old")
    /\ last' = Op("import", VNone, VNone, "")
    /\ steps' = steps + 1
    /\ UNCHANGED <<heap, held, registry, leafDefaults, saved, savedOf, returned>>

SavedFull == IF savedOf.kind \in {"full", "stripped"} THEN {saved} ELSE {}
SavedKeyed == IF savedOf.kind = "keyed" THEN {saved} ELSE {}

Init ==
    /\ heap = [i \in {} |-> 0]
    /\ held = {}
    /\ registry = [k \in {} |-> 0]
    /\ classes = RegisterAll([k \in {} |-> ""], {"Leaf", "Node"})
    /\ leafDefaults = << <<"x", VInt(0)>> >>
    /\ saved = VNone
    /\ savedOf = [kind |-> "none", id |-> 0, fresh |-> {}]
    /\ returned = {}
    /\ last = Op("init", VNone, VNone, "")
    /\ steps = 0

\* the codec and the instance registry
Next ==
    \/ \E x \in {0, 1} : ConstructLeaf(x)
    \/ \E deps \in {<<>>} \cup {<<VObj(c)>> : c \in held} : ConstructNode(deps, VNone)
    \/ \E i \in held : AccessKey(i)
    \/ \E i \in held : ToDictOp(i, TRUE)
    \/ \E i \in held : ToKeyedDict(i)
    \/ \E d \in SavedFull \cup {StoredLeaf, StoredNoModule} : FromDict(d)
    \/ \E d \in SavedKeyed \cup {StoredKeyed} : FromKeyedDict(d)
    \/ \E i \in held : Drop(i)

Spec == Init /\ [][Next]_vars

\* equality and identifiers of entities that hold plain mappings
NextEq ==
    \/ \E x \in {0, 1} : ConstructLeaf(x)
    \/ \E deps \in {<<>>} \cup {<<VObj(c)>> : c \in held},
          opts \in {VNone, OptsAB, OptsBA} : ConstructNode(deps, opts)
    \/ \E i \in held : AccessKey(i)
    \/ \E a \in held : \E other \in {VObj(b) : b \in held} \cup {VInt(0)} : Compare(a, other)
    \/ \E i \in held : Drop(i)

SpecEq == Init /\ [][NextEq]_vars

\* decoding dictionaries stored under renamed classes
NextRemap ==
    \/ \E x \in {0, 1} : ConstructLeaf(x)
    \/ \E i \in held : ToDictOp(i, TRUE)
    \/ \E d \in SavedFull \cup {StoredOld, StoredOlder} : FromDict(d)
    \/ \E i \in held : Drop(i)
    \/ ImportLegacy

SpecRemap == Init /\ [][NextRemap]_vars

\* the defaults mappings a class may declare for the fields x, y of Leaf:
\* x and a constructor parameter z that is not exported, each without a
\* default, with the default 0 or with the default None
DefaultChoices ==
    {dx \o dz : dx \in {<<>>, << <<"x", VInt(0)>> >>, << <<"x", VNone>> >>},
                dz \in {<<>>, << <<"z", VInt(0)>> >>, << <<"z", VNone>> >>}}

InitDefaults ==
    /\ heap = [i \in {} |-> 0]
    /\ held = {}
    /\ registry = [k \in {} |-> 0]
    /\ classes = RegisterAll([k \in {} |-> ""], {"Leaf", "Node"})
    /\ leafDefaults \in DefaultChoices
    /\ saved = VNone
    /\ savedOf = [kind |-> "none", id |-> 0, fresh |-> {}]
    /\ returned = {}
    /\ last = Op("init", VNone, VNone, "")
    /\ steps = 0

RECURSIVE Reexpand(_, _)
\* the caller puts the declared defaults back into a stripped dictionary
Reexpand(p, d) ==
    IF d = <<>> THEN p
    ELSE Reexpand(IF HasKey(p, Head(d)[1]) THEN p ELSE Append(p, Head(d)), Tail(d))

Reexpanded ==
    IF savedOf.kind = "stripped"
    THEN {VDict(Reexpand(saved.v, Defaults(Get(saved.v, "__qualname__").v)))}
    ELSE {}

\* encoding without defaults, for any defaults mapping
NextDefaults ==
    \/ \E x \in {0, 1} : ConstructLeaf(x)
    \/ \E i \in held, inc \in BOOLEAN : ToDictOp(i, inc)
    \/ \E d \in SavedFull \cup Reexpanded : FromDict(d)
    \/ \E i \in held : Drop(i)

SpecDefaults == InitDefaults /\ [][NextDefaults]_vars

\* entities held in lists and in mappings, at any depth
NextExpand ==
    \/ \E x \in {0, 1} : ConstructLeaf(x)
    \/ \E deps \in {<<>>} \cup {<<VObj(c)>> : c \in held},
          opts \in {VNone} \cup {VDict(<< <<"a", VObj(c)>> >>) : c \in held} :
            ConstructNode(deps, opts)
    \/ \E i \in held : ToDictOp(i, TRUE)
    \/ \E d \in SavedFull : FromDict(d)
    \/ \E i \in held : Drop(i)

SpecExpand == Init /\ [][NextExpand]_vars

\* decoding records that lack a tag
NextMalformed ==
    \/ \E x \in {0, 1} : ConstructLeaf(x)
    \/ \E i \in held : ToDictOp(i, TRUE)
    \/ \E d \in SavedFull \cup {StoredNoModule, StoredNoQualname, StoredNestedNoModule} :
            FromDict(d)
    \/ \E i \in held : Drop(i)

SpecMalformed == Init /\ [][NextMalformed]_vars

\* shallow dictionaries, which hold the entities themselves
NextShallow ==
    \/ \E x \in {0, 1} : ConstructLeaf(x)
    \/ \E deps \in {<<>>} \cup {<<VObj(c)>> : c \in held} : ConstructNode(deps, VNone)
    \/ \E i \in held : AccessKey(i)
    \/ \E i \in held : ToShallowDict(i)
    \/ FromShallowDict
    \/ \E i \in held : DropUnsaved(i)

SpecShallow == Init /\ [][NextShallow]_vars

\* the labels, boxes and identifiers chemical states are built with
Labels == {<<"L">>, <<"p", "L">>, <<"l", "i", "g">>}
ComponentMaps ==
    {<<>>} \cup {<< <<l, VComponent(1)>> >> : l \in Labels}
           \cup {<< <<<<"p", "L">>, VComponent(1)>>, <<<<"l", "i", "g">>, VComponent(2)>> >>}
UnitBox == NdArray([i \in 1..9 |-> IF i \in {1, 5, 9} THEN "1.0" ELSE "0.0"])

\* chemical states and their dictionaries
NextState ==
    \/ \E c \in ComponentMaps, bn \in {<<VNone, VNone>>, <<UnitBox, VStr("s")>>} :
            ConstructState(VDict(c), bn[1], bn[2])
    \/ \E i \in held : StateToDict(i)
    \/ StateFromDict
    \/ \E i \in held : Drop(i)

SpecState == Init /\ [][NextState]_vars

-----------------------------------------------------------------------------
(* Properties *)

\* the identifier i.key returns in the current state
Identifier(i) == Key(Cur, i, FALSE).val

\* the last operation decoded the dictionary that to_dict gave for a live e
DecodedSaved ==
    /\ last.op = "from_dict"
    /\ savedOf.kind = "full"
    /\ savedOf.id \in DOMAIN heap
    /\ last.arg = saved

\* C1: from_dict(to_dict(e)) succeeds and returns an entity that is == e and
\* has e's identifier, whatever the depth at which entities nest in e.
C1_RoundTrip ==
    DecodedSaved =>
        /\ last.err = ""
        /\ Eq(Cur, savedOf.id, last.out) = [val |-> TRUE, err |-> ""]
        /\ Identifier(last.out.v) = Identifier(savedOf.id)

\* a round trip of an entity whose dependency has a dependency, returning a
\* new instance
C1_Witness ==
    /\ DecodedSaved
    /\ last.err = ""
    /\ VDepth(VObj(savedOf.id), heap) = 3
    /\ last.out.v # savedOf.id

\* C2: if from_dict returned A for some dictionary and A is still alive, a
\* later from_dict of the identical dictionary returns that same instance A,
\* also when an earlier instance with that identifier has died.
C2_Dedup ==
    (last.op = "from_dict" /\ last.err = "") =>
        \A a \in last.aux : last.out.v = a

\* the entities an instance holds in its own fields
Deps(i) == Refs(VDict(heap[i].fields))

\* the last operation keyed-decoded what to_keyed_dict gave for a live e, all
\* of whose dependencies got their identifier only after that encode
KeyedInOrder ==
    /\ last.op = "from_keyed_dict"
    /\ savedOf.kind = "keyed"
    /\ last.arg = saved
    /\ savedOf.id \in DOMAIN heap
    /\ Deps(savedOf.id) # {}
    /\ Deps(savedOf.id) \subseteq savedOf.fresh
    /\ \A d \in Deps(savedOf.id) : heap[d].key # NoKey

\* C3: to_keyed_dict(e), then d.key for the dependency d of e, then
\* from_keyed_dict: the result has e's identifier and holds d, not None.
C3_KeyedRoundTrip ==
    KeyedInOrder =>
        /\ last.err = ""
        /\ Identifier(last.out.v) = Identifier(savedOf.id)
        /\ heap[last.out.v].fields = heap[savedOf.id].fields

RECURSIVE NoNullRefs(_, _)
\* wherever d has a reference record, r has an entity
NoNullRefs(d, r) ==
    IF is_gufe_key_dict(d) THEN r.t = "obj"
    ELSE IF d.t = "dict" /\ r.t = "dict"
         THEN \A k \in Keys(d.v) \cap Keys(r.v) : NoNullRefs(Get(d.v, k), Get(r.v, k))
    ELSE IF d.t = "list" /\ r.t = "list"
         THEN \A i \in 1..Len(d.v) : i <= Len(r.v) => NoNullRefs(d.v[i], r.v[i])
    ELSE TRUE

\* C4: from_keyed_dict raises the unresolvable-reference error (KeyError)
\* whenever a reference names an identifier that is absent from the registry
\* or whose instance is dead, and never puts None where a reference was.
C4_Unresolvable ==
    last.op = "from_keyed_dict" =>
        /\ last.aux # {} => last.err = "KeyError"
        /\ last.err = "" => NoNullRefs(last.arg, VDict(heap[last.out.v].fields))

\* C8: the error from_keyed_dict raises for a reference absent from the
\* registry differs in kind from the error a record without its __module__
\* tag raises.
C8_ErrorKinds ==
    (/\ last.op = "from_keyed_dict"
     /\ last.err # ""
     /\ \E k \in RefKeys(last.arg) : k \notin DOMAIN registry) =>
        last.err # dict_decode_dependencies(StoredNoModule, Cur).err

RECURSIVE Referenced(_)
\* a value with every entity replaced by the reference record of its identifier
Referenced(v) ==
    CASE v.t = "obj" -> KeyToDict(Identifier(v.v))
      [] v.t = "dict" -> VDict([i \in 1..Len(v.v) |-> <<v.v[i][1], Referenced(v.v[i][2])>>])
      [] v.t = "list" -> VList([i \in 1..Len(v.v) |-> Referenced(v.v[i])])
      [] OTHER -> v

\* C10: to_keyed_dict(e) is e's own dictionary, with e's class tags and all
\* its fields, each nested entity replaced by one reference record holding
\* that entity's identifier; the root is not replaced and no entity remains.
C10_KeyedRoot ==
    last.op = "to_keyed_dict" =>
        /\ last.err = ""
        /\ last.out.t = "dict"
        /\ Keys(last.out.v) = Keys(heap[last.arg.v].fields) \cup {"__module__", "__qualname__"}
        /\ Get(last.out.v, "__qualname__") = VStr(ClsQualname(heap[last.arg.v].cls))
        /\ Get(last.out.v, "__module__") = VStr(ClsModule(heap[last.arg.v].cls))
        /\ \A k \in Keys(heap[last.arg.v].fields) :
              Get(last.out.v, k) = Referenced(Get(heap[last.arg.v].fields, k))
        /\ Refs(last.out) = {}

\* a keyed encode of an entity that holds an entity
C10_Witness ==
    /\ last.op = "to_keyed_dict"
    /\ last.err = ""
    /\ Deps(last.arg.v) # {}
    /\ RefKeys(last.out) # {}

\* C5: comparing an entity with == against a value that is not an instance
\* of its class never raises and answers not-equal.
C5_EqNeverRaises ==
    (/\ last.op = "eq"
     /\ ~(last.arg[2].t = "obj" /\ heap[last.arg[2].v].cls = heap[last.arg[1].v].cls)) =>
        /\ last.err = ""
        /\ last.out = VBool(FALSE)

\* C6: two entities of one class that are == (their dictionary forms are
\* equal as mappings, field order ignored at every level) have the same
\* identifier, hence the same hash.
C6_EqualSameIdentifier ==
    (last.op = "eq" /\ last.err = "" /\ last.out = VBool(TRUE)) =>
        Identifier(last.arg[1].v) = Identifier(last.arg[2].v)

\* the location a dictionary is tagged with
Tag(d) == <<Get(d.v, "__module__").v, Get(d.v, "__qualname__").v>>

\* C7: a dictionary tagged with a remapped location decodes to an instance of
\* the class at the remap target, whatever the class registry holds, and the
\* target is not looked up in the remap table again.
C7_RemapFirst ==
    (/\ last.op = "from_dict"
     /\ is_gufe_dict(last.arg)
     /\ Tag(last.arg) \in DOMAIN REMAPPED_CLASSES) =>
        /\ last.err = ""
        /\ Location(heap[last.out.v].cls) = REMAPPED_CLASSES[Tag(last.arg)]

\* C9: to_dict(e, include_defaults=False) returns, without error, to_dict(e)
\* minus exactly the top-level fields that equal their declared default, for
\* any defaults mapping; put back and decoded, the result is == e.
C9_StripDefaults ==
    last.op = "to_dict_nodefaults" =>
        /\ last.err = ""
        /\ LET e == last.arg.v
               full == ToDict(Cur, e, TRUE).val.v
               d == Defaults(heap[e].cls)
               r == dict_decode_dependencies(VDict(Reexpand(last.out.v, d)), Cur)
           IN /\ Keys(last.out.v) =
                    {k \in Keys(full) : ~(HasKey(d, k) /\ PyEq(Get(full, k), Get(d, k)))}
              /\ \A k \in Keys(last.out.v) : Get(last.out.v, k) = Get(full, k)
              /\ r.err = ""
              /\ Eq(r.st, e, r.val) = [val |-> TRUE, err |-> ""]

C12_Memoized ==
    [][/\ last'.op = "key" =>
            /\ last'.err = ""
            /\ last'.out.v = ClsQualname(heap[last'.arg.v].cls) \o "-"
                                \o Digest(ToDict(Cur, last'.arg.v, FALSE)).val
            /\ heap[last'.arg.v].key # NoKey => last'.out.v = heap[last'.arg.v].key
            /\ heap'[last'.arg.v].key = last'.out.v
       /\ \A i \in DOMAIN heap \cap DOMAIN heap' :
            heap[i].key # NoKey => heap'[i].key = heap[i].key]_vars

\* an access to the identifier of an instance that already had one, while
\* the registry's entry for it refers to a dead instance
C12_Witness ==
    /\ last.op = "key"
    /\ last.err = ""
    /\ last.aux # {}
    /\ registry[last.out.v] = 0

RECURSIVE RawRecords(_)
\* whether a value holds, at any depth, a tagged dictionary left undecoded
RawRecords(v) ==
    CASE v.t = "dict" ->
            is_gufe_dict(v) \/ \E i \in 1..Len(v.v) : RawRecords(v.v[i][2])
      [] v.t = "list" -> \E i \in 1..Len(v.v) : RawRecords(v.v[i])
      [] OTHER -> FALSE

\* C13: from_dict reconstructs a nested record only after the records nested
\* in it, so no instance it builds was given a tagged dictionary where an
\* entity belongs.
C13_BottomUp ==
    (last.op = "from_dict" /\ last.err = "") =>
        \A i \in Reach({last.out.v}, heap) : ~RawRecords(VDict(heap[i].fields))

\* C14: once a live instance has had its identifier accessed, the registry
\* resolves that identifier to a live instance that has it, also when the
\* registry held a dead entry for the identifier before.
C14_Registered ==
    \A i \in DOMAIN heap :
        heap[i].key # NoKey =>
            /\ heap[i].key \in DOMAIN registry
            /\ registry[heap[i].key] \in DOMAIN heap
            /\ heap[registry[heap[i].key]].key = heap[i].key

\* C15: each registry entry under k refers to a dead instance or to a live
\* instance whose identifier is k, and no operation removes an entry or puts
\* another reference under an identifier that has one.
C15_RegistryKept ==
    [][/\ \A k \in DOMAIN registry' :
            registry'[k] = 0
            \/ (registry'[k] \in DOMAIN heap' /\ heap'[registry'[k]].key = k)
       /\ \A k \in DOMAIN registry :
            k \in DOMAIN registry' /\ registry'[k] \in {registry[k], 0}]_vars

\* an identifier access by an instance whose identifier is already registered
\* to another live instance
C15_Witness ==
    /\ last.op = "key"
    /\ last.err = ""
    /\ registry[last.out.v] \in DOMAIN heap
    /\ registry[last.out.v] # last.arg.v

RECURSIVE Expanded(_)
\* a value with every entity replaced by its tagged dictionary form, the
\* entities inside that form replaced likewise
Expanded(v) ==
    CASE v.t = "obj" ->
            Expanded(VDict(heap[v.v].fields
                           \o << <<"__qualname__", VStr(ClsQualname(heap[v.v].cls))>>,
                                 <<"__module__", VStr(ClsModule(heap[v.v].cls))>> >>))
      [] v.t = "dict" -> VDict([i \in 1..Len(v.v) |-> <<v.v[i][1], Expanded(v.v[i][2])>>])
      [] v.t = "list" -> VList([i \in 1..Len(v.v) |-> Expanded(v.v[i])])
      [] OTHER -> v

\* C16: to_dict(e) is e's dictionary form with both tags, in which every
\* nested entity, in a list or a mapping and at any depth, is replaced by its
\* own tagged dictionary form; no entity remains.
C16_FullyExpanded ==
    last.op = "to_dict" =>
        /\ last.err = ""
        /\ last.out = Expanded(last.arg)
        /\ is_gufe_dict(last.out)
        /\ Refs(last.out) = {}

\* to_dict of an entity that holds, in a mapping, an entity that holds an
\* entity in a list
C16_Witness ==
    /\ last.op = "to_dict"
    /\ last.err = ""
    /\ VDepth(last.arg, heap) = 3
    /\ Get(heap[last.arg.v].fields, "opts").t = "dict"
    /\ \E j \in Refs(Get(heap[last.arg.v].fields, "opts")) : Deps(j) # {}

RECURSIVE HalfTagged(_)
\* whether a value holds, at any depth, a mapping with one of the two tags
HalfTagged(v) ==
    CASE v.t = "dict" ->
            (HasKey(v.v, "__module__") # HasKey(v.v, "__qualname__"))
            \/ \E i \in 1..Len(v.v) : HalfTagged(v.v[i][2])
      [] v.t = "list" -> \E i \in 1..Len(v.v) : HalfTagged(v.v[i])
      [] OTHER -> FALSE

\* C17: from_dict raises the malformed-record error (KeyError) for a
\* dictionary in which the root or a nested mapping has only one of the tags
\* __module__ and __qualname__.
C17_Malformed ==
    (last.op = "from_dict" /\ HalfTagged(last.arg)) => last.err = "KeyError"

\* C18: from_shallow_dict(d) leaves d as it was, so each call on the
\* dictionary to_shallow_dict gave succeeds, the second like the first, and
\* returns an entity == the one encoded.
C18_ShallowRepeatable ==
    last.op = "from_shallow_dict" =>
        /\ last.after = last.arg
        /\ last.err = ""
        /\ savedOf.id \in DOMAIN heap =>
              Eq(Cur, savedOf.id, last.out) = [val |-> TRUE, err |-> ""]

\* C19: for a ChemicalState cs with at least one component,
\* ChemicalState.from_dict(cs.to_dict()) succeeds and returns a ChemicalState
\* == cs, with the same labels and an equal component under each.
C19_StateRoundTrip ==
    (/\ last.op = "state_from_dict"
     /\ savedOf.id \in DOMAIN heap
     /\ Get(last.arg.v, "components").v # <<>>) =>
        /\ last.err = ""
        /\ ChemicalState_eq(heap[savedOf.id], heap[last.out.v])

====
